---- MODULE Spec2Model ----
(***************************************************************************)
(* A model of the JNI bridge c2pa_jni.c: the runtime handle g_jvm and its  *)
(* mutex, the cached class references, the signer-context registry         *)
(* g_signerContexts and its mutex, stream contexts, and the callbacks the  *)
(* native library issues on arbitrary threads.  Every process is a thread  *)
(* of the program: host threads running Signer.nativeFromCallback,         *)
(* Signer.free, Stream.createStreamNative, Stream.releaseStreamNative and  *)
(* JNI_OnUnload, and callback threads running java_*_callback.  A step is  *)
(* one access to memory another thread can reach.                          *)
(***************************************************************************)
EXTENDS Integers, Sequences, FiniteSets, TLC

\* ---------------------------------------------------------------- bounds
MaxSigners == 1
MaxStreams == 1
MaxThreads == 1
MaxRegistrySigners == 2   \* signers of the specification of the registry alone

Signers == 1..MaxSigners
Streams == 1..MaxStreams
Threads == 1..MaxThreads
RegistrySigners == 1..MaxRegistrySigners

VARIABLES
    g_jvm,              \* TRUE: the JavaVM pointer is set; FALSE: NULL
    g_jvm_mutex,        \* owner of g_jvm_mutex
    g_signerContexts,   \* the linked list, head first: a sequence of signer ids
    g_signerContextsMutex,
    g_streamClass,      \* "null" | "held" | "released"
    g_signResultClass,
    g_streamMethods,    \* the cached method IDs that are non-NULL
    sctx,               \* JavaSignerContext of signer s: [mem, isActive]
    sref,               \* ctx->callback global reference: "none" | "held" | "deleted"
    snode,              \* SignerContextNode of signer s: "none" | "live" | "freed"
    nsigner,            \* the native C2paSigner: "none" | "live" | "freed"
    sPc,                \* where the host thread working on signer s is
    stctx,              \* JavaStreamContext memory: "none" | "live" | "freed"
    stref,              \* ctx->streamObject global reference
    nstream,            \* the native C2paStream
    stPc,
    stLog,              \* per stream: what releaseStreamNative did, in order
    uPc,                \* where JNI_OnUnload is
    uCur,               \* cleanup_all_signer_contexts: index of `current`
    th,                 \* callback threads: attachment state and the callback frame
    call                \* one call examined on its own: entry point, arguments, result

vars == <<g_jvm, g_jvm_mutex, g_signerContexts, g_signerContextsMutex,
          g_streamClass, g_signResultClass, g_streamMethods,
          sctx, sref, snode, nsigner, sPc, stctx, stref, nstream, stPc, stLog,
          uPc, uCur, th, call>>

sharedVars == <<g_jvm, g_jvm_mutex, g_streamClass, g_signResultClass, g_streamMethods>>
signerVars == <<g_signerContexts, g_signerContextsMutex, sctx, sref, snode, nsigner, sPc>>
streamVars == <<stctx, stref, nstream, stPc, stLog>>
unloadVars == <<uPc, uCur>>
signerVars_but_pc == <<g_signerContexts, g_signerContextsMutex, sctx, sref, snode, nsigner>>

NoOwner == <<"none", 0>>
AllMethods == {"read", "seek", "write", "flush"}

\* ------------------------------------------------------------ JNI_OnLoad
\* What FindClass / GetMethodID found when the library was loaded.
LoadOutcomes ==
    { [cls |-> "held", methods |-> AllMethods, res |-> "held"],
      [cls |-> "held", methods |-> AllMethods \ {"flush"}, res |-> "null"],
      [cls |-> "null", methods |-> {}, res |-> "held"] }

\* No call is being examined.
NoCall == [fn |-> "none"]

IdleFrame ==
    [pc |-> "idle", kind |-> "none", obj |-> 0, saw |-> "none", env |-> "none",
     attachedNow |-> FALSE, markedNow |-> FALSE,
     ret |-> 0, alloc |-> FALSE, called |-> 0, pending |-> FALSE, copied |-> 0]

\* JNI_OnLoad stored what it found.
Loaded(o) ==
    /\ g_streamClass = o.cls
    /\ g_streamMethods = o.methods
    /\ g_signResultClass = o.res

\* No signer has been created: the registry is empty, and the host will
\* create the signers of S.
InitSigners(S) ==
    /\ g_signerContexts = <<>>
    /\ g_signerContextsMutex = NoOwner
    /\ sctx = [s \in S |-> [mem |-> "none", isActive |-> FALSE]]
    /\ sref = [s \in S |-> "none"]
    /\ snode = [s \in S |-> "none"]
    /\ nsigner = [s \in S |-> "none"]
    /\ sPc = [s \in S |-> "absent"]

\* Everything else: the static initialisers and g_jvm = vm.
InitOthers ==
    /\ g_jvm = TRUE
    /\ g_jvm_mutex = NoOwner
    /\ stctx = [x \in Streams |-> "none"]
    /\ stref = [x \in Streams |-> "none"]
    /\ nstream = [x \in Streams |-> "none"]
    /\ stPc = [x \in Streams |-> "absent"]
    /\ stLog = [x \in Streams |-> <<>>]
    /\ uPc = "loaded"
    /\ uCur = 0
    /\ \E own \in [Threads -> BOOLEAN] :
          th = [t \in Threads |->
                  [attached |-> own[t], hostOwned |-> own[t], marker |-> FALSE,
                   exited |-> FALSE, detachedByBridge |-> 0, attaches |-> 0,
                   frame |-> IdleFrame]]
    /\ call = NoCall

InitRest == InitSigners(Signers) /\ InitOthers

Init ==
    /\ InitRest
    /\ \E o \in LoadOutcomes : Loaded(o)

\* ------------------------------------------------- Signer.nativeFromCallback
\* The strcmp chain of lines 1119-1131 on the converted algorithm string.
\* Mutant of SigningAlg: the comparison ignores the case of the letters.
SigningAlg_ignoreCase(calg) ==
    IF calg \in {"es256", "ES256"} THEN "Es256"
    ELSE IF calg = "es384" THEN "Es384"
    ELSE IF calg = "es512" THEN "Es512"
    ELSE IF calg = "ps256" THEN "Ps256"
    ELSE IF calg = "ps384" THEN "Ps384"
    ELSE IF calg = "ps512" THEN "Ps512"
    ELSE IF calg \in {"ed25519", "Ed25519"} THEN "Ed25519"
    ELSE "unknown"

SigningAlg(calg) ==
    IF calg = "es256" THEN "Es256"
    ELSE IF calg = "es384" THEN "Es384"
    ELSE IF calg = "es512" THEN "Es512"
    ELSE IF calg = "ps256" THEN "Ps256"
    ELSE IF calg = "ps384" THEN "Ps384"
    ELSE IF calg = "ps512" THEN "Ps512"
    ELSE IF calg = "ed25519" THEN "Ed25519"
    ELSE "unknown"

\* Lines 1108-1141 on the arguments: which of algorithm, certificateChain
\* and callback are null, the algorithm string, and which GetStringUTFChars
\* (if any) fails.  The check that returns 0, or "ok".
FromCallbackArgs(in) ==
    IF in.nulls # {} THEN "null_arg"
    ELSE IF in.conv = "algorithm" THEN "alg_conv"
    ELSE IF SigningAlg(in.alg) = "unknown" THEN "alg_unknown"
    ELSE IF in.conv = "certificateChain" THEN "certs_conv"
    ELSE "ok"

ArgOutcomes == {"null_arg", "alg_conv", "alg_unknown", "certs_conv"}

\* The first step of lines 1108-1186 that fails, or "ok".
CreateOutcomes == ArgOutcomes \cup {"ok", "calloc", "globalref", "method", "native"}

\* The exception pending when nativeFromCallback returns; check_exception
\* has cleared what GetStringUTFChars, NewGlobalRef and GetMethodID raised.
FromCallbackRaised(o) ==
    IF o = "null_arg" THEN
        [class |-> "IllegalArgumentException", msg |-> "Required parameters cannot be null"]
    ELSE IF o = "alg_unknown" THEN
        [class |-> "IllegalArgumentException", msg |-> "Unknown signing algorithm"]
    ELSE IF o = "calloc" THEN
        [class |-> "OutOfMemoryError", msg |-> "Failed to allocate signer context"]
    ELSE [class |-> "none", msg |-> ""]

\* What lines 1108-1191 leave behind: the context record, its global
\* reference, the native signer and whether a non-zero handle is returned.
\* Mutant of FromCallbackEffect: when c2pa_signer_create returns NULL the
\* context and its global reference are left as they are.
FromCallbackEffect_nativeLeak(o) ==
    IF o \in ArgOutcomes \cup {"calloc"} THEN
        [mem |-> "none", isActive |-> FALSE, ref |-> "none", native |-> "none", handle |-> FALSE]
    ELSE IF o = "globalref" THEN
        [mem |-> "freed", isActive |-> FALSE, ref |-> "none", native |-> "none", handle |-> FALSE]
    ELSE IF o = "method" THEN
        [mem |-> "freed", isActive |-> FALSE, ref |-> "deleted", native |-> "none", handle |-> FALSE]
    ELSE IF o = "native" THEN
        [mem |-> "live", isActive |-> TRUE, ref |-> "held", native |-> "none", handle |-> FALSE]
    ELSE
        [mem |-> "live", isActive |-> TRUE, ref |-> "held", native |-> "live", handle |-> TRUE]

FromCallbackEffect(o) ==
    IF o \in ArgOutcomes \cup {"calloc"} THEN
        [mem |-> "none", isActive |-> FALSE, ref |-> "none", native |-> "none", handle |-> FALSE]
    ELSE IF o = "globalref" THEN   \* free(ctx); return 0
        [mem |-> "freed", isActive |-> FALSE, ref |-> "none", native |-> "none", handle |-> FALSE]
    ELSE IF o \in {"method", "native"} THEN   \* DeleteGlobalRef; free(ctx); return 0
        [mem |-> "freed", isActive |-> FALSE, ref |-> "deleted", native |-> "none", handle |-> FALSE]
    ELSE   \* ctx->isActive = JNI_TRUE; c2pa_signer_create succeeded
        [mem |-> "live", isActive |-> TRUE, ref |-> "held", native |-> "live", handle |-> TRUE]

Signer_nativeFromCallback(s) ==
    /\ sPc[s] = "absent"
    /\ \E o \in CreateOutcomes :
         LET e == FromCallbackEffect(o) IN
         /\ sctx' = [sctx EXCEPT ![s] = [mem |-> e.mem, isActive |-> e.isActive]]
         /\ sref' = [sref EXCEPT ![s] = e.ref]
         /\ nsigner' = [nsigner EXCEPT ![s] = e.native]
         /\ sPc' = [sPc EXCEPT ![s] = IF e.handle THEN "created" ELSE "failed"]
    /\ UNCHANGED <<g_signerContexts, g_signerContextsMutex, snode>>
    /\ UNCHANGED <<sharedVars, streamVars, unloadVars, th>>
    /\ UNCHANGED call

\* register_signer_context: malloc of the node, then the lock.  When malloc
\* fails nothing is registered and the handle is returned all the same.
register_malloc(s) ==
    /\ sPc[s] = "created"
    /\ \E ok \in BOOLEAN :
         IF ok
         THEN /\ g_signerContextsMutex = NoOwner
              /\ g_signerContextsMutex' = <<"create", s>>
              /\ snode' = [snode EXCEPT ![s] = "live"]
              /\ sPc' = [sPc EXCEPT ![s] = "reg_locked"]
         ELSE /\ sPc' = [sPc EXCEPT ![s] = "live"]
              /\ UNCHANGED <<g_signerContextsMutex, snode>>
    /\ UNCHANGED <<g_signerContexts, sctx, sref, nsigner>>
    /\ UNCHANGED <<sharedVars, streamVars, unloadVars, th>>
    /\ UNCHANGED call

register_insert(s) ==
    /\ sPc[s] = "reg_locked"
    /\ g_signerContexts' = <<s>> \o g_signerContexts
    /\ g_signerContextsMutex' = NoOwner
    /\ sPc' = [sPc EXCEPT ![s] = "live"]
    /\ UNCHANGED <<sctx, sref, snode, nsigner>>
    /\ UNCHANGED <<sharedVars, streamVars, unloadVars, th>>
    /\ UNCHANGED call

\* ------------------------------------------------------------- Signer.free
InRegistry(s) == \E i \in 1..Len(g_signerContexts) : g_signerContexts[i] = s

\* Mutant of RemoveNode: the head node is unlinked whatever its signer.
RemoveNode_head(list, s) == Tail(list)

RemoveNode(list, s) == SelectSeq(list, LAMBDA x : x # s)

\* Signer_free with a non-zero handle: unregister_signer_context takes the lock.
free_lock(s) ==
    /\ sPc[s] = "live"
    /\ g_signerContextsMutex = NoOwner
    /\ g_signerContextsMutex' = <<"free", s>>
    /\ sPc' = [sPc EXCEPT ![s] = "f_walk"]
    /\ UNCHANGED <<g_signerContexts, sctx, sref, snode, nsigner>>
    /\ UNCHANGED <<sharedVars, streamVars, unloadVars, th>>
    /\ UNCHANGED call

\* The list walk; on a match ctx->isActive = JNI_FALSE.
\* Mutant of FreeWalkNext: the context is released whether or not a node
\* of the signer was found.
FreeWalkNext_always(s) == "f_env_lock"

FreeWalkNext(s) == IF InRegistry(s) THEN "f_env_lock" ELSE "f_unlock"

free_walk(s) ==
    /\ sPc[s] = "f_walk"
    /\ sPc' = [sPc EXCEPT ![s] = FreeWalkNext(s)]
    /\ sctx' = IF InRegistry(s) THEN [sctx EXCEPT ![s].isActive = FALSE] ELSE sctx
    /\ UNCHANGED <<g_signerContexts, g_signerContextsMutex, sref, snode, nsigner>>
    /\ UNCHANGED <<sharedVars, streamVars, unloadVars, th>>
    /\ UNCHANGED call

\* get_jni_env on the freeing host thread: lock, read g_jvm, unlock.
free_env_lock(s) ==
    /\ sPc[s] = "f_env_lock"
    /\ g_jvm_mutex = NoOwner
    /\ g_jvm_mutex' = <<"free", s>>
    /\ sPc' = [sPc EXCEPT ![s] = "f_env_read"]
    /\ UNCHANGED <<g_jvm, g_streamClass, g_signResultClass, g_streamMethods>>
    /\ UNCHANGED <<signerVars_but_pc, streamVars, unloadVars, th>>
    /\ UNCHANGED call

free_env_read(s) ==
    /\ sPc[s] = "f_env_read"
    /\ g_jvm_mutex' = NoOwner
    /\ sPc' = [sPc EXCEPT ![s] = IF g_jvm THEN "f_delref" ELSE "f_freectx"]
    /\ UNCHANGED <<g_jvm, g_streamClass, g_signResultClass, g_streamMethods>>
    /\ UNCHANGED <<signerVars_but_pc, streamVars, unloadVars, th>>
    /\ UNCHANGED call

\* The host thread is attached (GetEnv = JNI_OK): env != NULL, and
\* ctx->callback != NULL for every registered context: DeleteGlobalRef.
free_delref(s) ==
    /\ sPc[s] = "f_delref"
    /\ sref' = [sref EXCEPT ![s] = "deleted"]
    /\ sPc' = [sPc EXCEPT ![s] = "f_freectx"]
    /\ UNCHANGED <<g_signerContexts, g_signerContextsMutex, sctx, snode, nsigner>>
    /\ UNCHANGED <<sharedVars, streamVars, unloadVars, th>>
    /\ UNCHANGED call

\* free(ctx)
free_ctx(s) ==
    /\ sPc[s] = "f_freectx"
    /\ sctx' = [sctx EXCEPT ![s].mem = "freed"]
    /\ sPc' = [sPc EXCEPT ![s] = "f_unlink"]
    /\ UNCHANGED <<g_signerContexts, g_signerContextsMutex, sref, snode, nsigner>>
    /\ UNCHANGED <<sharedVars, streamVars, unloadVars, th>>
    /\ UNCHANGED call

\* *current = toDelete->next; free(toDelete); break
free_unlink(s) ==
    /\ sPc[s] = "f_unlink"
    /\ g_signerContexts' = RemoveNode(g_signerContexts, s)
    /\ snode' = [snode EXCEPT ![s] = "freed"]
    /\ sPc' = [sPc EXCEPT ![s] = "f_unlock"]
    /\ UNCHANGED <<g_signerContextsMutex, sctx, sref, nsigner>>
    /\ UNCHANGED <<sharedVars, streamVars, unloadVars, th>>
    /\ UNCHANGED call

free_unlock(s) ==
    /\ sPc[s] = "f_unlock"
    /\ g_signerContextsMutex' = NoOwner
    /\ sPc' = [sPc EXCEPT ![s] = "f_native"]
    /\ UNCHANGED <<g_signerContexts, sctx, sref, snode, nsigner>>
    /\ UNCHANGED <<sharedVars, streamVars, unloadVars, th>>
    /\ UNCHANGED call

\* c2pa_signer_free(signer)
free_native(s) ==
    /\ sPc[s] = "f_native"
    /\ nsigner' = [nsigner EXCEPT ![s] = "freed"]
    /\ sPc' = [sPc EXCEPT ![s] = "freed"]
    /\ UNCHANGED <<g_signerContexts, g_signerContextsMutex, sctx, sref, snode>>
    /\ UNCHANGED <<sharedVars, streamVars, unloadVars, th>>
    /\ UNCHANGED call

\* ------------------------------------------------------------ JNI_OnUnload
\* (*vm)->GetEnv on the unloading thread; anything but JNI_OK returns at once.
OnUnload_GetEnv ==
    /\ uPc = "loaded"
    /\ \E ok \in BOOLEAN : uPc' = IF ok THEN "u_lock" ELSE "skipped"
    /\ UNCHANGED <<uCur, sharedVars, signerVars, streamVars, th>>
    /\ UNCHANGED call

\* Mutant of cleanup_lock: the drain starts without waiting for the mutex.
cleanup_lock_noWait ==
    /\ uPc = "u_lock"
    /\ g_signerContextsMutex' = <<"unload", 0>>
    /\ uCur' = 1
    /\ uPc' = "drain"
    /\ UNCHANGED <<g_signerContexts, sctx, sref, snode, nsigner, sPc>>
    /\ UNCHANGED <<sharedVars, streamVars, th>>
    /\ UNCHANGED call

\* cleanup_all_signer_contexts: lock; current = g_signerContexts
cleanup_lock ==
    /\ uPc = "u_lock"
    /\ g_signerContextsMutex = NoOwner
    /\ g_signerContextsMutex' = <<"unload", 0>>
    /\ uCur' = 1
    /\ uPc' = "drain"
    /\ UNCHANGED <<g_signerContexts, sctx, sref, snode, nsigner, sPc>>
    /\ UNCHANGED <<sharedVars, streamVars, th>>
    /\ UNCHANGED call

\* Mutant of cleanup_mark: the drain does not clear isActive.
cleanup_mark_skip ==
    /\ uPc = "drain"
    /\ uCur <= Len(g_signerContexts)
    /\ uPc' = "drop"
    /\ UNCHANGED <<uCur, sharedVars, signerVars, streamVars, th>>
    /\ UNCHANGED call

\* ctx->isActive = JNI_FALSE
cleanup_mark ==
    /\ uPc = "drain"
    /\ uCur <= Len(g_signerContexts)
    /\ sctx' = [sctx EXCEPT ![g_signerContexts[uCur]].isActive = FALSE]
    /\ uPc' = "drop"
    /\ UNCHANGED <<uCur, g_signerContexts, g_signerContextsMutex, sref, snode, nsigner, sPc>>
    /\ UNCHANGED <<sharedVars, streamVars, th>>
    /\ UNCHANGED call

\* if (ctx->callback != NULL) DeleteGlobalRef(env, ctx->callback)
cleanup_drop ==
    /\ uPc = "drop"
    /\ sref' = [sref EXCEPT ![g_signerContexts[uCur]] = IF @ = "held" THEN "deleted" ELSE @]
    /\ uPc' = "free"
    /\ UNCHANGED <<uCur, g_signerContexts, g_signerContextsMutex, sctx, snode, nsigner, sPc>>
    /\ UNCHANGED <<sharedVars, streamVars, th>>
    /\ UNCHANGED call

\* free(ctx); free(current); current = next
cleanup_free ==
    /\ uPc = "free"
    /\ sctx' = [sctx EXCEPT ![g_signerContexts[uCur]].mem = "freed"]
    /\ snode' = [snode EXCEPT ![g_signerContexts[uCur]] = "freed"]
    /\ uCur' = uCur + 1
    /\ uPc' = "drain"
    /\ UNCHANGED <<g_signerContexts, g_signerContextsMutex, sref, nsigner, sPc>>
    /\ UNCHANGED <<sharedVars, streamVars, th>>
    /\ UNCHANGED call

\* g_signerContexts = NULL; unlock
cleanup_unlock ==
    /\ uPc = "drain"
    /\ uCur > Len(g_signerContexts)
    /\ g_signerContexts' = <<>>
    /\ g_signerContextsMutex' = NoOwner
    /\ uCur' = 0
    /\ uPc' = "cls_stream"
    /\ UNCHANGED <<sctx, sref, snode, nsigner, sPc>>
    /\ UNCHANGED <<sharedVars, streamVars, th>>
    /\ UNCHANGED call

ReleaseClass(c) == IF c = "held" THEN "released" ELSE c

OnUnload_streamClass ==
    /\ uPc = "cls_stream"
    /\ g_streamClass' = ReleaseClass(g_streamClass)
    /\ uPc' = "cls_result"
    /\ UNCHANGED <<uCur, g_jvm, g_jvm_mutex, g_signResultClass, g_streamMethods>>
    /\ UNCHANGED <<signerVars, streamVars, th>>
    /\ UNCHANGED call

OnUnload_signResultClass ==
    /\ uPc = "cls_result"
    /\ g_signResultClass' = ReleaseClass(g_signResultClass)
    /\ uPc' = "jvm_lock"
    /\ UNCHANGED <<uCur, g_jvm, g_jvm_mutex, g_streamClass, g_streamMethods>>
    /\ UNCHANGED <<signerVars, streamVars, th>>
    /\ UNCHANGED call

OnUnload_jvm_lock ==
    /\ uPc = "jvm_lock"
    /\ g_jvm_mutex = NoOwner
    /\ g_jvm_mutex' = <<"unload", 0>>
    /\ uPc' = "jvm_clear"
    /\ UNCHANGED <<uCur, g_jvm, g_streamClass, g_signResultClass, g_streamMethods>>
    /\ UNCHANGED <<signerVars, streamVars, th>>
    /\ UNCHANGED call

\* g_jvm = NULL; unlock
OnUnload_jvm_clear ==
    /\ uPc = "jvm_clear"
    /\ g_jvm' = FALSE
    /\ g_jvm_mutex' = NoOwner
    /\ uPc' = "unloaded"
    /\ UNCHANGED <<uCur, g_streamClass, g_signResultClass, g_streamMethods>>
    /\ UNCHANGED <<signerVars, streamVars, th>>
    /\ UNCHANGED call

\* ------------------------------------------------ Stream.createStreamNative
StreamOutcomes == {"ok", "calloc", "globalref", "native"}

\* What lines 523-565 leave behind; the method-ID check comes after the
\* global reference is made and before c2pa_create_stream.
\* Mutant of CreateStreamEffect: the cached method IDs are not looked at.
CreateStreamEffect_noMethodCheck(o, methods) ==
    IF o = "calloc" THEN
        [mem |-> "none", ref |-> "none", native |-> "none", handle |-> FALSE,
         raised |-> "OutOfMemoryError"]
    ELSE IF o = "globalref" THEN
        [mem |-> "freed", ref |-> "none", native |-> "none", handle |-> FALSE,
         raised |-> "OutOfMemoryError"]
    ELSE IF o = "native" THEN
        [mem |-> "freed", ref |-> "deleted", native |-> "none", handle |-> FALSE,
         raised |-> "RuntimeException"]
    ELSE
        [mem |-> "live", ref |-> "held", native |-> "live", handle |-> TRUE,
         raised |-> "none"]

CreateStreamEffect(o, methods) ==
    IF o = "calloc" THEN
        [mem |-> "none", ref |-> "none", native |-> "none", handle |-> FALSE,
         raised |-> "OutOfMemoryError"]
    ELSE IF o = "globalref" THEN   \* free(ctx); check_exception; ThrowNew
        [mem |-> "freed", ref |-> "none", native |-> "none", handle |-> FALSE,
         raised |-> "OutOfMemoryError"]
    ELSE IF methods # AllMethods THEN   \* DeleteGlobalRef; free(ctx); ThrowNew
        [mem |-> "freed", ref |-> "deleted", native |-> "none", handle |-> FALSE,
         raised |-> "IllegalStateException"]
    ELSE IF o = "native" THEN   \* c2pa_create_stream returned NULL
        [mem |-> "freed", ref |-> "deleted", native |-> "none", handle |-> FALSE,
         raised |-> "RuntimeException"]
    ELSE
        [mem |-> "live", ref |-> "held", native |-> "live", handle |-> TRUE,
         raised |-> "none"]

Stream_createStreamNative(x) ==
    /\ stPc[x] = "absent"
    /\ \E o \in StreamOutcomes :
         LET e == CreateStreamEffect(o, g_streamMethods) IN
         /\ stctx' = [stctx EXCEPT ![x] = e.mem]
         /\ stref' = [stref EXCEPT ![x] = e.ref]
         /\ nstream' = [nstream EXCEPT ![x] = e.native]
         /\ stPc' = [stPc EXCEPT ![x] = IF e.handle THEN "live" ELSE "failed"]
    /\ UNCHANGED <<stLog, sharedVars, signerVars, unloadVars, th>>
    /\ UNCHANGED call

\* ----------------------------------------------- Stream.releaseStreamNative
\* Mutant of release_delref: the global reference is not deleted.
release_delref_skip(x) ==
    /\ stPc[x] = "live"
    /\ stPc' = [stPc EXCEPT ![x] = "r_free"]
    /\ UNCHANGED <<stctx, stref, nstream, stLog, sharedVars, signerVars, unloadVars, th>>
    /\ UNCHANGED call

\* streamPtr != 0: ctx = stream->context; ctx and ctx->streamObject are
\* non-NULL for every stream that was created: DeleteGlobalRef
release_delref(x) ==
    /\ stPc[x] = "live"
    /\ stref' = [stref EXCEPT ![x] = IF stctx[x] # "none" /\ @ = "held" THEN "deleted" ELSE @]
    /\ stLog' = [stLog EXCEPT ![x] = Append(@, "delref")]
    /\ stPc' = [stPc EXCEPT ![x] = "r_free"]
    /\ UNCHANGED <<stctx, nstream, sharedVars, signerVars, unloadVars, th>>
    /\ UNCHANGED call

\* free(ctx)
release_free(x) ==
    /\ stPc[x] = "r_free"
    /\ stctx' = [stctx EXCEPT ![x] = "freed"]
    /\ stPc' = [stPc EXCEPT ![x] = "r_native"]
    /\ UNCHANGED <<stref, nstream, stLog, sharedVars, signerVars, unloadVars, th>>
    /\ UNCHANGED call

\* c2pa_release_stream(stream)
release_native(x) ==
    /\ stPc[x] = "r_native"
    /\ nstream' = [nstream EXCEPT ![x] = "freed"]
    /\ stLog' = [stLog EXCEPT ![x] = Append(@, "native")]
    /\ stPc' = [stPc EXCEPT ![x] = "released"]
    /\ UNCHANGED <<stctx, stref, sharedVars, signerVars, unloadVars, th>>
    /\ UNCHANGED call

\* ---------------------------------------------------------- callback bodies
INT32_MAX == 2147483647

\* What the native library passes and what the host method does: the
\* requested length, whether NewByteArray succeeds, whether the host method
\* throws, the host method's result (for sign: the signature length, -1 for
\* a null signature) and the output capacity signed_len.
\* A length is hi * 2^31 + lo with 0 <= lo <= INT32_MAX: the 64-bit
\* intptr_t / uintptr_t of the code, which the checker's integers cannot hold.
Length(hi, lo) == [hi |-> hi, lo |-> lo]
\* Mutant of ExceedsInt32: the comparison is >= instead of >.
ExceedsInt32_offByOne(len) == len.hi > 0 \/ len.lo >= INT32_MAX
ExceedsInt32(len) == len.hi > 0           \* len > INT32_MAX
AtMost(n, len) == len.hi > 0 \/ n <= len.lo   \* n <= len
BodyLens == {Length(0, 2), Length(1, 0)}
BodyCounts == {-1, 1, 3}
BodyCaps == {2}
BodyInputs ==
    [len : BodyLens, allocOk : BOOLEAN, throws : BOOLEAN, n : BodyCounts, cap : BodyCaps]

Out(ret, alloc, called, pending, copied) ==
    [ret |-> ret, alloc |-> alloc, called |-> called, pending |-> pending, copied |-> copied]

\* java_read_callback after get_jni_env succeeded
java_read_callback(in) ==
    IF ExceedsInt32(in.len) THEN Out(-1, FALSE, 0, TRUE, 0)   \* throw_c2pa_exception
    ELSE IF ~in.allocOk THEN Out(-1, FALSE, 0, FALSE, 0)    \* check_exception clears
    ELSE IF in.throws THEN Out(-1, TRUE, 1, FALSE, 0)       \* check_exception clears
    ELSE Out(in.n, TRUE, 1, FALSE, IF in.n > 0 /\ AtMost(in.n, in.len) THEN in.n ELSE 0)

java_seek_callback(in) ==
    IF in.throws THEN Out(-1, FALSE, 1, FALSE, 0)
    ELSE Out(in.n, FALSE, 1, FALSE, 0)

java_write_callback(in) ==
    IF ExceedsInt32(in.len) THEN Out(-1, FALSE, 0, TRUE, 0)
    ELSE IF ~in.allocOk THEN Out(-1, FALSE, 0, FALSE, 0)
    ELSE IF in.throws THEN Out(-1, TRUE, 1, FALSE, 0)
    ELSE Out(in.n, TRUE, 1, FALSE, 0)

java_flush_callback(in) ==
    IF in.throws THEN Out(-1, FALSE, 1, FALSE, 0)
    ELSE Out(in.n, FALSE, 1, FALSE, 0)

\* Mutant of java_signer_callback: the signature is copied whatever its length.
java_signer_callback_noCapacityCheck(in) ==
    IF ExceedsInt32(in.len) THEN Out(-1, FALSE, 0, TRUE, 0)
    ELSE IF ~in.allocOk THEN Out(-1, FALSE, 0, FALSE, 0)
    ELSE IF in.throws THEN Out(-1, TRUE, 1, FALSE, 0)
    ELSE IF in.n < 0 THEN Out(-1, TRUE, 1, FALSE, 0)
    ELSE Out(in.n, TRUE, 1, FALSE, in.n)

\* java_signer_callback after the isActive check and get_jni_env
java_signer_callback(in) ==
    IF ExceedsInt32(in.len) THEN Out(-1, FALSE, 0, TRUE, 0)
    ELSE IF ~in.allocOk THEN Out(-1, FALSE, 0, FALSE, 0)
    ELSE IF in.throws THEN Out(-1, TRUE, 1, FALSE, 0)
    ELSE IF in.n < 0 THEN Out(-1, TRUE, 1, FALSE, 0)        \* jsignature == NULL
    ELSE IF in.n > in.cap THEN Out(-1, TRUE, 1, FALSE, 0)   \* sig_len > signed_len
    ELSE Out(in.n, TRUE, 1, FALSE, in.n)

CallbackBody(kind, in) ==
    CASE kind = "read" -> java_read_callback(in)
      [] kind = "seek" -> java_seek_callback(in)
      [] kind = "write" -> java_write_callback(in)
      [] kind = "flush" -> java_flush_callback(in)
      [] kind = "sign" -> java_signer_callback(in)

\* ------------------------------------------------------- callback threads
StreamKinds == {"read", "seek", "write", "flush"}

Frame(t) == th[t].frame

SetFrame(t, f) == [th EXCEPT ![t].frame = f]

\* The context record and the global reference a callback's context
\* argument points at.
CtxMem(kind, obj) == IF kind = "sign" THEN sctx[obj].mem ELSE stctx[obj]
CtxRef(kind, obj) == IF kind = "sign" THEN sref[obj] ELSE stref[obj]

\* The native library calls back on thread t: a stream callback on a native
\* stream it still holds, or the signer callback of a native signer.
CanCall(kind, obj) ==
    IF kind = "sign"
    THEN obj \in Signers /\ nsigner[obj] = "live"
         /\ sPc[obj] \notin {"absent", "created", "reg_locked", "failed"}
    ELSE obj \in Streams /\ nstream[obj] = "live"

FirstPc(kind) == IF kind = "sign" THEN "check" ELSE "env_lock"

cb_start(t) ==
    /\ Frame(t).pc = "idle"
    /\ ~th[t].exited
    /\ \E kind \in StreamKinds \cup {"sign"}, obj \in Signers \cup Streams :
         /\ CanCall(kind, obj)
         /\ th' = SetFrame(t, [IdleFrame EXCEPT !.pc = FirstPc(kind),
                                                !.kind = kind, !.obj = obj])
    /\ UNCHANGED <<sharedVars, signerVars, streamVars, unloadVars>>
    /\ UNCHANGED call

\* if (!jctx->isActive) return -1;  a read of freed memory yields either value
SeenActive(s) ==
    IF sctx[s].mem = "live" THEN {sctx[s].isActive} ELSE BOOLEAN

\* Mutant of CheckNext: the inactive branch falls through to get_jni_env.
CheckNext_fallThrough(f, a) ==
    [f EXCEPT !.saw = IF a THEN "active" ELSE "inactive", !.pc = "env_lock"]

CheckNext(f, a) ==
    IF a THEN [f EXCEPT !.saw = "active", !.pc = "env_lock"]
    ELSE [f EXCEPT !.saw = "inactive", !.pc = "done", !.ret = -1]

cb_check(t) ==
    /\ Frame(t).pc = "check"
    /\ \E a \in SeenActive(Frame(t).obj) :
         th' = SetFrame(t, CheckNext(Frame(t), a))
    /\ UNCHANGED <<sharedVars, signerVars, streamVars, unloadVars>>
    /\ UNCHANGED call

\* get_jni_env: pthread_mutex_lock(&g_jvm_mutex)
cb_env_lock(t) ==
    /\ Frame(t).pc = "env_lock"
    /\ g_jvm_mutex = NoOwner
    /\ g_jvm_mutex' = <<"thread", t>>
    /\ th' = SetFrame(t, [Frame(t) EXCEPT !.pc = "env_read"])
    /\ UNCHANGED <<g_jvm, g_streamClass, g_signResultClass, g_streamMethods>>
    /\ UNCHANGED <<signerVars, streamVars, unloadVars>>
    /\ UNCHANGED call

\* jvm = g_jvm; unlock; if (jvm == NULL) return NULL  (the callback returns -1)
EnvReadNext(f, jvm) ==
    IF jvm THEN [f EXCEPT !.pc = "env_get"]
    ELSE [f EXCEPT !.pc = "done", !.env = "fail", !.ret = -1]

\* Mutant of cb_env_read: g_jvm_mutex is not unlocked before get_jni_env
\* goes on.
cb_env_read_holdLock(t) ==
    /\ Frame(t).pc = "env_read"
    /\ th' = SetFrame(t, EnvReadNext(Frame(t), g_jvm))
    /\ UNCHANGED <<sharedVars, signerVars, streamVars, unloadVars>>
    /\ UNCHANGED call

cb_env_read(t) ==
    /\ Frame(t).pc = "env_read"
    /\ g_jvm_mutex' = NoOwner
    /\ th' = SetFrame(t, EnvReadNext(Frame(t), g_jvm))
    /\ UNCHANGED <<g_jvm, g_streamClass, g_signResultClass, g_streamMethods>>
    /\ UNCHANGED <<signerVars, streamVars, unloadVars>>
    /\ UNCHANGED call

\* (*jvm)->GetEnv on a thread that is attached or not
\* Mutant of GetEnvStatus: GetEnv reports an attached thread as detached.
GetEnvStatus_alwaysDetached(attached) ==
    {"JNI_EDETACHED", "JNI_EVERSION"}

GetEnvStatus(attached) ==
    IF attached THEN {"JNI_OK", "JNI_EVERSION"} ELSE {"JNI_EDETACHED", "JNI_EVERSION"}

\* Mutant of GetEnvAttach: the marker is set before the result of
\* AttachCurrentThread is looked at.
GetEnvAttach_markFirst(r, status, attachOk) ==
    IF status = "JNI_EDETACHED" THEN
        IF attachOk
        THEN [r EXCEPT !.attached = TRUE, !.attaches = @ + 1, !.marker = TRUE,
                       !.frame.attachedNow = TRUE, !.frame.markedNow = TRUE,
                       !.frame.env = "ok", !.frame.pc = "body"]
        ELSE [r EXCEPT !.marker = TRUE, !.frame.markedNow = TRUE,
                       !.frame.env = "fail", !.frame.pc = "done", !.frame.ret = -1]
    ELSE IF status # "JNI_OK" THEN
        [r EXCEPT !.frame.env = "fail", !.frame.pc = "done", !.frame.ret = -1]
    ELSE [r EXCEPT !.frame.env = "ok", !.frame.pc = "body"]

\* Mutant of GetEnvAttach: the marker is set whenever an environment is
\* returned, attached by this call or not.
GetEnvAttach_markAlways(r, status, attachOk) ==
    IF status = "JNI_EDETACHED" THEN
        IF attachOk
        THEN [r EXCEPT !.attached = TRUE, !.attaches = @ + 1, !.marker = TRUE,
                       !.frame.attachedNow = TRUE, !.frame.markedNow = TRUE,
                       !.frame.env = "ok", !.frame.pc = "body"]
        ELSE [r EXCEPT !.frame.env = "fail", !.frame.pc = "done", !.frame.ret = -1]
    ELSE IF status # "JNI_OK" THEN
        [r EXCEPT !.frame.env = "fail", !.frame.pc = "done", !.frame.ret = -1]
    ELSE [r EXCEPT !.marker = TRUE, !.frame.markedNow = TRUE,
                   !.frame.env = "ok", !.frame.pc = "body"]

\* Lines 213-224 on thread record r: the status of GetEnv and whether
\* AttachCurrentThread succeeds.
GetEnvAttach(r, status, attachOk) ==
    IF status = "JNI_EDETACHED" THEN
        IF attachOk
        THEN [r EXCEPT !.attached = TRUE, !.attaches = @ + 1, !.marker = TRUE,
                       !.frame.attachedNow = TRUE, !.frame.markedNow = TRUE,
                       !.frame.env = "ok", !.frame.pc = "body"]
        ELSE [r EXCEPT !.frame.env = "fail", !.frame.pc = "done", !.frame.ret = -1]
    ELSE IF status # "JNI_OK" THEN
        [r EXCEPT !.frame.env = "fail", !.frame.pc = "done", !.frame.ret = -1]
    ELSE [r EXCEPT !.frame.env = "ok", !.frame.pc = "body"]

\* The local copy jvm is used after the mutex was released: g_jvm may have
\* been cleared since.
cb_env_get(t) ==
    /\ Frame(t).pc = "env_get"
    /\ \E status \in GetEnvStatus(th[t].attached), attachOk \in BOOLEAN :
         th' = [th EXCEPT ![t] =
                  GetEnvAttach(@, status, attachOk)]
    /\ UNCHANGED <<sharedVars, signerVars, streamVars, unloadVars>>
    /\ UNCHANGED call

\* What CallLongMethod / CallObjectMethod is handed when it reads
\* jctx->streamObject / jctx->callback
Deref(kind, obj) ==
    IF CtxMem(kind, obj) # "live" THEN "freed_ctx"
    ELSE IF CtxRef(kind, obj) # "held" THEN "deleted_ref"
    ELSE "ok"

BodyNext(f, out) ==
    [f EXCEPT !.pc = "done", !.ret = out.ret, !.alloc = out.alloc, !.called = out.called,
              !.pending = out.pending, !.copied = out.copied]

\* The rest of the callback: length check, array, host method, copy-out.
cb_body(t) ==
    /\ Frame(t).pc = "body"
    /\ \E in \in BodyInputs :
         th' = SetFrame(t, BodyNext(Frame(t), CallbackBody(Frame(t).kind, in)))
    /\ UNCHANGED <<sharedVars, signerVars, streamVars, unloadVars>>
    /\ UNCHANGED call

\* The callback returns to the native library.
cb_return(t) ==
    /\ Frame(t).pc = "done"
    /\ th' = SetFrame(t, IdleFrame)
    /\ UNCHANGED <<sharedVars, signerVars, streamVars, unloadVars>>
    /\ UNCHANGED call

\* ------------------------------------------------------------ thread exit
\* thread_detach_destructor(value): value is the thread-attached marker.
\* With the marker set it locks g_jvm_mutex; otherwise the thread is gone
\* (a thread of the host runtime is detached by the runtime itself).
exit_begin(t) ==
    /\ Frame(t).pc = "idle"
    /\ ~th[t].exited
    /\ IF th[t].marker
       THEN /\ g_jvm_mutex = NoOwner
            /\ g_jvm_mutex' = <<"thread", t>>
            /\ th' = SetFrame(t, [IdleFrame EXCEPT !.pc = "x_read"])
       ELSE /\ th' = [th EXCEPT ![t].exited = TRUE, ![t].attached = FALSE]
            /\ UNCHANGED g_jvm_mutex
    /\ UNCHANGED <<g_jvm, g_streamClass, g_signResultClass, g_streamMethods>>
    /\ UNCHANGED <<signerVars, streamVars, unloadVars>>
    /\ UNCHANGED call

\* jvm = g_jvm; unlock; without a runtime handle the thread exits attached
exit_read(t) ==
    /\ Frame(t).pc = "x_read"
    /\ g_jvm_mutex' = NoOwner
    /\ th' = IF g_jvm THEN SetFrame(t, [IdleFrame EXCEPT !.pc = "x_detach"])
             ELSE [th EXCEPT ![t].exited = TRUE, ![t].frame = IdleFrame]
    /\ UNCHANGED <<g_jvm, g_streamClass, g_signResultClass, g_streamMethods>>
    /\ UNCHANGED <<signerVars, streamVars, unloadVars>>
    /\ UNCHANGED call

\* (*jvm)->DetachCurrentThread(jvm)
exit_detach(t) ==
    /\ Frame(t).pc = "x_detach"
    /\ th' = [th EXCEPT ![t].exited = TRUE, ![t].attached = FALSE,
                        ![t].detachedByBridge = @ + 1, ![t].frame = IdleFrame]
    /\ UNCHANGED <<sharedVars, signerVars, streamVars, unloadVars>>
    /\ UNCHANGED call

\* ---------------------------------------------------------- specification
Next ==
    \/ \E s \in Signers :
         \/ Signer_nativeFromCallback(s)
         \/ register_malloc(s)
         \/ register_insert(s)
         \/ free_lock(s)
         \/ free_walk(s)
         \/ free_env_lock(s)
         \/ free_env_read(s)
         \/ free_delref(s)
         \/ free_ctx(s)
         \/ free_unlink(s)
         \/ free_unlock(s)
         \/ free_native(s)
    \/ \E x \in Streams :
         \/ Stream_createStreamNative(x)
         \/ release_delref(x)
         \/ release_free(x)
         \/ release_native(x)
    \/ OnUnload_GetEnv
    \/ cleanup_lock
    \/ cleanup_mark
    \/ cleanup_drop
    \/ cleanup_free
    \/ cleanup_unlock
    \/ OnUnload_streamClass
    \/ OnUnload_signResultClass
    \/ OnUnload_jvm_lock
    \/ OnUnload_jvm_clear
    \/ \E t \in Threads :
         \/ cb_start(t)
         \/ cb_check(t)
         \/ cb_env_lock(t)
         \/ cb_env_read(t)
         \/ cb_env_get(t)
         \/ cb_body(t)
         \/ cb_return(t)
         \/ exit_begin(t)
         \/ exit_read(t)
         \/ exit_detach(t)

Spec == Init /\ [][Next]_vars

\* ------------------------------------------ entry points taken one at a time
\* A second specification: one thread, one call at a time.  The library is
\* loaded with any of the cached classes and method IDs found or missing;
\* an entry point or a callback body is called with arguments drawn from
\* the sets below and its result is kept in `call` until it returns.
CallLoadOutcomes ==
    { [cls |-> "held", methods |-> m, res |-> "held"] : m \in SUBSET AllMethods }
    \cup { [cls |-> "held", methods |-> AllMethods, res |-> "null"],
           [cls |-> "null", methods |-> {}, res |-> "held"] }

InitCalls ==
    /\ InitRest
    /\ \E o \in CallLoadOutcomes : Loaded(o)

CallLens == {Length(0, 0), Length(0, 2), Length(0, INT32_MAX), Length(1, 0), Length(1, 2)}
CallCounts == -2..3
CallCaps == {0, 2}
CallInputs ==
    [len : CallLens, allocOk : BOOLEAN, throws : BOOLEAN, n : CallCounts, cap : CallCaps]

\* The native library calls one of the five callbacks on an attached thread
\* (get_jni_env returned an environment; the signer context is active).
call_callback ==
    /\ call = NoCall
    /\ \E kind \in StreamKinds \cup {"sign"}, in \in CallInputs :
         call' = [fn |-> kind, in |-> in, out |-> CallbackBody(kind, in)]
    /\ UNCHANGED <<sharedVars, signerVars, streamVars, unloadVars, th>>

\* Stream.createStreamNative: the handle is returned to the host at once.
call_createStream ==
    /\ call = NoCall
    /\ \E o \in StreamOutcomes :
         call' = [fn |-> "createStream", in |-> o,
                  out |-> CreateStreamEffect(o, g_streamMethods)]
    /\ UNCHANGED <<sharedVars, signerVars, streamVars, unloadVars, th>>

AlgInputs ==
    {"es256", "es384", "es512", "ps256", "ps384", "ps512", "ed25519",
     "ES256", "Ed25519", "es25", "es2560", ""}
FromCallbackInputs ==
    [alg : AlgInputs,
     nulls : SUBSET {"algorithm", "certificateChain", "callback"},
     conv : {"ok", "algorithm", "certificateChain"},
     o : {"ok", "calloc", "globalref", "method", "native"}]

\* Signer.nativeFromCallback up to the call of register_signer_context
call_fromCallback ==
    /\ call = NoCall
    /\ \E in \in FromCallbackInputs :
         LET a == FromCallbackArgs(in)
             o == IF a = "ok" THEN in.o ELSE a
         IN call' = [fn |-> "fromCallback", in |-> in, outcome |-> o,
                     out |-> FromCallbackEffect(o), raised |-> FromCallbackRaised(o),
                     registerCalled |-> FromCallbackEffect(o).handle]
    /\ UNCHANGED <<sharedVars, signerVars, streamVars, unloadVars, th>>

\* int64_t size as a Length: negative with hi < 0.
IsNegative(len) == len.hi < 0
IsPositive(len) == len.hi > 0 \/ (len.hi = 0 /\ len.lo > 0)

\* (jsize)size: the low 32 bits of the 64-bit value, as a signed int
ToJsize(len) == IF len.hi % 2 = 0 THEN len.lo ELSE (len.lo - INT32_MAX) - 1

SignOut(ret, size, arrayLen, freed, raised, nativeCalled) ==
    [ret |-> ret, size |-> size, arrayLen |-> arrayLen, freed |-> freed,
     raised |-> raised, nativeCalled |-> nativeCalled]

\* Builder.signNative: in.size and in.bytes are what c2pa_builder_sign
\* returned (bytes: manifestBytes != NULL), cls is g_signResultClass.
\* arrayLen is the length of the host array of the result, -1 for null.
Builder_signNative(in, cls) ==
    IF in.nullArg THEN
        SignOut("none", in.size, -1, FALSE, "IllegalArgumentException", FALSE)
    ELSE IF ~in.formatOk THEN   \* jstring_to_cstring returned NULL
        SignOut("none", in.size, -1, FALSE, "none", FALSE)
    ELSE IF IsNegative(in.size) THEN   \* throw_c2pa_exception
        SignOut("none", in.size, -1, FALSE, "RuntimeException", TRUE)
    ELSE IF cls = "null" /\ ~in.findClassOk THEN
        SignOut("none", in.size, -1, in.bytes, "none", TRUE)
    ELSE IF ~in.constructorOk THEN
        SignOut("none", in.size, -1, in.bytes, "none", TRUE)
    ELSE IF in.bytes /\ IsPositive(in.size) THEN
        IF ToJsize(in.size) < 0 THEN   \* safe_new_byte_array: size < 0
            SignOut("none", in.size, -1, TRUE, "IllegalArgumentException", TRUE)
        ELSE IF ~in.allocOk THEN   \* NewByteArray returned NULL
            SignOut("none", in.size, -1, TRUE, "none", TRUE)
        ELSE IF ~in.newObjectOk THEN
            SignOut("none", in.size, ToJsize(in.size), TRUE, "none", TRUE)
        ELSE SignOut("SignResult", in.size, ToJsize(in.size), TRUE, "none", TRUE)
    ELSE IF ~in.newObjectOk THEN
        SignOut("none", in.size, -1, FALSE, "none", TRUE)
    ELSE SignOut("SignResult", in.size, -1, FALSE, "none", TRUE)

SignSizes ==
    {Length(-1, INT32_MAX), Length(0, 0), Length(0, 3), Length(0, INT32_MAX),
     Length(1, 0), Length(2, 3)}
SignInputs ==
    [nullArg : BOOLEAN, formatOk : BOOLEAN, size : SignSizes, bytes : BOOLEAN,
     findClassOk : BOOLEAN, constructorOk : BOOLEAN, allocOk : BOOLEAN,
     newObjectOk : BOOLEAN]

call_builderSign ==
    /\ call = NoCall
    /\ \E in \in SignInputs :
         \* c2pa_builder_sign returns bytes with a positive size only
         /\ in.bytes => IsPositive(in.size)
         /\ call' = [fn |-> "builderSign", in |-> in,
                     out |-> Builder_signNative(in, g_signResultClass)]
    /\ UNCHANGED <<sharedVars, signerVars, streamVars, unloadVars, th>>

\* A C string the native library returns: NULL, or its characters.
CString(null, chars) == [null |-> null, chars |-> chars]
ErrorStrings ==
    {CString(TRUE, <<>>), CString(FALSE, <<>>), CString(FALSE, <<"e">>),
     CString(FALSE, <<"b", "a", "d">>)}
DefaultMessages == {<<"F", "a", "i", "l", "e", "d">>}

\* Mutant of throw_c2pa_exception: an empty last-error string is thrown too.
throw_c2pa_exception_noEmptyCheck(error, defaultMessage) ==
    IF ~error.null
    THEN [msg |-> error.chars, raises |-> 1, frees |-> 1]
    ELSE [msg |-> defaultMessage, raises |-> 1, frees |-> 0]

\* throw_c2pa_exception: error is what c2pa_error() returned.  The message
\* of the RuntimeException thrown, how many are thrown, and how many times
\* c2pa_string_free(error) is called.
throw_c2pa_exception(error, defaultMessage) ==
    IF ~error.null /\ Len(error.chars) > 0
    THEN [msg |-> error.chars, raises |-> 1, frees |-> 1]
    ELSE [msg |-> defaultMessage, raises |-> 1, frees |-> 0]

call_nativeFailure ==
    /\ call = NoCall
    /\ \E error \in ErrorStrings, defaultMessage \in DefaultMessages :
         call' = [fn |-> "nativeFailure",
                  in |-> [error |-> error, defaultMessage |-> defaultMessage],
                  out |-> throw_c2pa_exception(error, defaultMessage)]
    /\ UNCHANGED <<sharedVars, signerVars, streamVars, unloadVars, th>>

\* Host strings: a jstring argument is null, or GetStringUTFChars fails on
\* it, or it is pinned to a C string.
StringStatus == {"null", "fail", "ok"}

\* One path through an entry point: the arguments it passed to
\* jstring_to_cstring and, in order, those it passed to release_cstring.
StringPath(converted, released) == [converted |-> converted, released |-> released]

\* jstring_to_cstring pins the strings that are non-null and convert.
Pinned(path, status) == {n \in path.converted : status[n] = "ok"}

\* release_cstring(env, jstr, cstr) releases when jstr and cstr are
\* non-NULL: how many times the string n is released on the path.
ReleaseCount(path, status, n) ==
    IF n \in path.converted /\ status[n] = "ok"
    THEN Cardinality({i \in 1..Len(path.released) : path.released[i] = n})
    ELSE 0

SignFileStrings ==
    <<"sourcePath", "destPath", "manifest", "algorithm", "certificatePEM",
      "privateKeyPEM", "tsaURL", "dataDir">>
SignFileRequired ==
    {"sourcePath", "destPath", "manifest", "algorithm", "certificatePEM", "privateKeyPEM"}
Elements(seq) == {seq[i] : i \in 1..Len(seq)}

\* C2PA.signFileNative: lines 470-474 return before any pin; both later
\* exits (485-496 and 508-518) release all eight.
signFileNative(status) ==
    IF \E n \in SignFileRequired : status[n] = "null"
    THEN StringPath({}, <<>>)
    ELSE StringPath(Elements(SignFileStrings), SignFileStrings)

FromCallbackStrings == <<"algorithm", "certificateChain", "tsaURL">>

\* Mutant of nativeFromCallback_strings: the exit at line 1140 releases nothing.
nativeFromCallback_strings_noRelease(a) ==
    IF a = "null_arg" THEN StringPath({}, <<>>)
    ELSE IF a = "alg_conv" THEN StringPath({"algorithm"}, <<>>)
    ELSE IF a = "alg_unknown" THEN StringPath({"algorithm"}, <<"algorithm">>)
    ELSE IF a = "certs_conv" THEN
        StringPath(Elements(FromCallbackStrings), <<"algorithm">>)
    ELSE StringPath(Elements(FromCallbackStrings), FromCallbackStrings)

\* Signer.nativeFromCallback, by the outcome a of its argument checks:
\* algorithm is released at 1127 or 1133, tsaURL alone at 1139, and
\* certificateChain and tsaURL on every exit after that.
nativeFromCallback_strings(a) ==
    IF a = "null_arg" THEN StringPath({}, <<>>)
    ELSE IF a = "alg_conv" THEN StringPath({"algorithm"}, <<>>)
    ELSE IF a = "alg_unknown" THEN StringPath({"algorithm"}, <<"algorithm">>)
    ELSE IF a = "certs_conv" THEN
        StringPath(Elements(FromCallbackStrings), <<"algorithm", "tsaURL">>)
    ELSE StringPath(Elements(FromCallbackStrings), FromCallbackStrings)

\* C2PA.ed25519SignNative: the exits before line 1230 pin nothing; the exit
\* at 1233 follows a failed pin; the last exit releases privateKey.
ed25519SignNative_strings(in) ==
    IF in.dataNull \/ in.status["privateKey"] = "null" THEN StringPath({}, <<>>)
    ELSE IF in.dataEmpty \/ ~in.elementsOk THEN StringPath({}, <<>>)
    ELSE IF in.status["privateKey"] = "fail" THEN StringPath({"privateKey"}, <<>>)
    ELSE StringPath({"privateKey"}, <<"privateKey">>)

StringsOut(names, path, status) ==
    [names |-> names, pinned |-> Pinned(path, status),
     releases |-> [n \in names |-> ReleaseCount(path, status, n)]]

MaxBadStrings == 2   \* strings of one signFile call that are null or fail
SignFileStatuses ==
    {f \in [Elements(SignFileStrings) -> StringStatus] :
        Cardinality({n \in Elements(SignFileStrings) : f[n] # "ok"}) <= MaxBadStrings}

\* The status of the three strings of a from-callback call with arguments in.
FromCallbackStatus(in, tsa) ==
    [n \in Elements(FromCallbackStrings) |->
        IF n = "tsaURL" THEN tsa
        ELSE IF n \in in.nulls THEN "null"
        ELSE IF in.conv = n THEN "fail"
        ELSE "ok"]

\* The pins and releases of one call of an entry point that takes strings.
call_strings ==
    /\ call = NoCall
    /\ \/ \E status \in SignFileStatuses :
            call' = [fn |-> "signFile", in |-> status,
                     out |-> StringsOut(Elements(SignFileStrings),
                                        signFileNative(status), status)]
       \/ \E in \in FromCallbackInputs, tsa \in StringStatus :
            LET status == FromCallbackStatus(in, tsa) IN
            call' = [fn |-> "fromCallbackStrings", in |-> in, status |-> status,
                     out |-> StringsOut(Elements(FromCallbackStrings),
                                        nativeFromCallback_strings(FromCallbackArgs(in)),
                                        status)]
       \/ \E in \in [dataNull : BOOLEAN, dataEmpty : BOOLEAN, elementsOk : BOOLEAN,
                       status : [{"privateKey"} -> StringStatus]] :
            call' = [fn |-> "ed25519Sign", in |-> in,
                     out |-> StringsOut({"privateKey"}, ed25519SignNative_strings(in),
                                        in.status)]
    /\ UNCHANGED <<sharedVars, signerVars, streamVars, unloadVars, th>>

\* The operations on handles: for each, the handles and required arguments
\* it takes (args), those its first `if` tests for 0 / NULL (checked),
\* whether it yields a handle or bytes (yields) and whether a NULL or
\* negative result of the native function is followed by
\* throw_c2pa_exception (raises).
GatewayOp(args, checked, yields, raises) ==
    [args |-> args, checked |-> checked, yields |-> yields, raises |-> raises]

GatewayOps ==
    [ Reader_fromStreamNative |->                          \* 585-608
        GatewayOp({"format", "streamPtr"}, {"format", "streamPtr"}, TRUE, TRUE),
      Reader_fromManifestDataAndStreamNative |->           \* 610-652
        GatewayOp({"format", "streamPtr", "manifestData"},
                  {"format", "streamPtr", "manifestData"}, TRUE, FALSE),
      Reader_toJsonNative |->                              \* 660-678
        GatewayOp({"readerPtr"}, {"readerPtr"}, TRUE, TRUE),
      Builder_nativeFromJson |->                           \* 753-774
        GatewayOp({"manifestJson"}, {"manifestJson"}, TRUE, TRUE),
      Builder_nativeFromArchive |->                        \* 776-792
        GatewayOp({"streamPtr"}, {"streamPtr"}, TRUE, TRUE),
      Builder_addActionNative |->                          \* 811-826
        GatewayOp({"builderPtr", "actionJson"}, {"builderPtr", "actionJson"}, FALSE, FALSE),
      Builder_addResourceNative |->                        \* 855-861
        GatewayOp({"builderPtr", "uri", "streamPtr"}, {}, FALSE, FALSE),
      Builder_addIngredientFromStreamNative |->            \* 863-876
        GatewayOp({"builderPtr", "ingredientJson", "format", "streamPtr"}, {}, FALSE, FALSE),
      Builder_toArchiveNative |->                          \* 878-882
        GatewayOp({"builderPtr", "streamPtr"}, {}, FALSE, FALSE),
      Builder_dataHashedPlaceholderNative |->              \* 959-996
        GatewayOp({"builderPtr", "format"}, {"builderPtr", "format"}, TRUE, TRUE),
      Builder_signDataHashedEmbeddableNative |->           \* 998-1020
        GatewayOp({"builderPtr", "signerPtr", "dataHash", "format"}, {}, TRUE, FALSE),
      Signer_nativeFromInfo |->                            \* 1023-1060
        GatewayOp({"algorithm", "certificatePEM", "privateKeyPEM"},
                  {"algorithm", "certificatePEM", "privateKeyPEM"}, TRUE, FALSE),
      Signer_reserveSizeNative |->                         \* 1194-1196
        GatewayOp({"signerPtr"}, {}, FALSE, FALSE),
      C2PA_ed25519SignNative |->                           \* 1210-1255
        GatewayOp({"data", "privateKey"}, {"data", "privateKey"}, TRUE, FALSE) ]

\* One call of op with the arguments of `zero` being 0 / NULL, all strings
\* converting, and the native function returning NULL / a negative size
\* when nativeNull.
Gateway(op, zero, nativeNull) ==
    LET g == GatewayOps[op] IN
    IF zero \cap g.checked # {} THEN
        [raised |-> "domain", nativeCalled |-> FALSE, passedZero |-> {}, ret |-> "failure"]
    ELSE IF ~nativeNull THEN
        [raised |-> "none", nativeCalled |-> TRUE, passedZero |-> zero, ret |-> "value"]
    ELSE IF g.raises THEN
        [raised |-> "native", nativeCalled |-> TRUE, passedZero |-> zero, ret |-> "failure"]
    ELSE
        [raised |-> "none", nativeCalled |-> TRUE, passedZero |-> zero, ret |-> "failure"]

call_gateway ==
    /\ call = NoCall
    /\ \E op \in DOMAIN GatewayOps, nativeNull \in BOOLEAN :
         \E zero \in SUBSET GatewayOps[op].args :
            call' = [fn |-> "gateway", op |-> op,
                     in |-> [zero |-> zero, nativeNull |-> nativeNull],
                     out |-> Gateway(op, zero, nativeNull)]
    /\ UNCHANGED <<sharedVars, signerVars, streamVars, unloadVars, th>>

\* The width of uintptr_t in the build: 32 on armeabi-v7a and x86, 64 on
\* arm64-v8a and x86_64.
UintptrBits == {32, 64}

\* (jlong)(uintptr_t)value for a 64-bit value: on a 32-bit build the low
\* 32 bits, zero-extended.
CastThroughUintptr(value, bits) ==
    IF bits = 64 THEN value ELSE Length(value.hi % 2, value.lo)

MinusOne == Length(-1, INT32_MAX)

\* Reader.resourceToStreamNative: result is what
\* c2pa_reader_resource_to_stream returned.
Reader_resourceToStreamNative(in) ==
    IF in.zero # {} THEN
        [ret |-> MinusOne, raised |-> "IllegalArgumentException", nativeCalled |-> FALSE]
    ELSE IF ~in.uriOk THEN
        [ret |-> MinusOne, raised |-> "none", nativeCalled |-> FALSE]
    ELSE [ret |-> CastThroughUintptr(in.result, in.bits), raised |-> "none",
          nativeCalled |-> TRUE]

ResourceResults ==
    {MinusOne, Length(-1, 0), Length(-2, 7), Length(0, 0), Length(0, 5),
     Length(0, INT32_MAX), Length(1, 0), Length(2, 1)}

call_resourceToStream ==
    /\ call = NoCall
    /\ \E in \in [zero : SUBSET {"readerPtr", "uri", "streamPtr"}, uriOk : BOOLEAN,
                    result : ResourceResults, bits : UintptrBits] :
         call' = [fn |-> "resourceToStream", in |-> in,
                  out |-> Reader_resourceToStreamNative(in)]
    /\ UNCHANGED <<sharedVars, signerVars, streamVars, unloadVars, th>>

\* The four release entry points: the calls each makes for a handle value,
\* in order. Every one is guarded by `ptr != 0`.
ReleaseKinds == {"Stream_releaseStreamNative", "Reader_free", "Builder_free", "Signer_free"}

\* Mutant of ReleaseSteps: the `ptr != 0` guard is missing.
ReleaseSteps_noZeroCheck(kind, ptr) ==
    IF kind = "Stream_releaseStreamNative" THEN <<"DeleteGlobalRef", "free", "c2pa_release_stream">>
    ELSE IF kind = "Reader_free" THEN <<"c2pa_reader_free">>
    ELSE IF kind = "Builder_free" THEN <<"c2pa_builder_free">>
    ELSE <<"unregister_signer_context", "c2pa_signer_free">>

ReleaseSteps(kind, ptr) ==
    IF ptr = 0 THEN <<>>
    ELSE IF kind = "Stream_releaseStreamNative" THEN <<"DeleteGlobalRef", "free", "c2pa_release_stream">>
    ELSE IF kind = "Reader_free" THEN <<"c2pa_reader_free">>
    ELSE IF kind = "Builder_free" THEN <<"c2pa_builder_free">>
    ELSE <<"unregister_signer_context", "c2pa_signer_free">>

RECURSIVE ReleaseTimes(_, _, _)
ReleaseTimes(kind, ptr, times) ==
    IF times = 0 THEN <<>>
    ELSE ReleaseSteps(kind, ptr) \o ReleaseTimes(kind, ptr, times - 1)

\* A release of the zero handle, once or twice in a row, or of a live handle
\* once (what the steps of a live release do to the bridge is free_lock ..
\* free_native and release_delref .. release_native). None of the four
\* raises anything: they return void and call no throwing function.
call_release ==
    /\ call = NoCall
    /\ \E kind \in ReleaseKinds, ptr \in {0, 1}, times \in 1..2 :
         /\ ptr # 0 => times = 1
         /\ call' = [fn |-> "release", kind |-> kind, ptr |-> ptr, times |-> times,
                     steps |-> ReleaseTimes(kind, ptr, times), raised |-> "none"]
    /\ UNCHANGED <<sharedVars, signerVars, streamVars, unloadVars, th>>

call_return ==
    /\ call # NoCall
    /\ call' = NoCall
    /\ UNCHANGED <<sharedVars, signerVars, streamVars, unloadVars, th>>

NextCalls ==
    \/ call_callback
    \/ call_createStream
    \/ call_fromCallback
    \/ call_builderSign
    \/ call_nativeFailure
    \/ call_strings
    \/ call_gateway
    \/ call_resourceToStream
    \/ call_release
    \/ call_return

SpecCalls == InitCalls /\ [][NextCalls]_vars

\* ------------------------------------------------------ the registry alone
\* A third specification: host threads create and free several signers
\* while another thread unloads the library; no callback is issued and no
\* stream is made, so that the registry is exercised by concurrent inserts,
\* removes and the drain.
\* Signer.nativeFromInfo (1023-1060): no context, no global reference and
\* no registry node; the native signer exists when c2pa_signer_from_info
\* succeeded, and every failure leaves nothing behind.
FromInfoOutcomes == {"ok", "null_arg", "conv", "native"}

Signer_nativeFromInfo(s) ==
    /\ sPc[s] = "absent"
    /\ \E o \in FromInfoOutcomes :
         /\ nsigner' = [nsigner EXCEPT ![s] = IF o = "ok" THEN "live" ELSE "none"]
         /\ sPc' = [sPc EXCEPT ![s] = IF o = "ok" THEN "live" ELSE "failed"]
    /\ UNCHANGED <<g_signerContexts, g_signerContextsMutex, sctx, sref, snode>>
    /\ UNCHANGED <<sharedVars, streamVars, unloadVars, th>>
    /\ UNCHANGED call

InitRegistry ==
    /\ InitSigners(RegistrySigners)
    /\ InitOthers
    /\ \E o \in LoadOutcomes : Loaded(o)

NextRegistry ==
    \/ \E x \in Streams : Stream_createStreamNative(x)
    \/ \E s \in RegistrySigners :
         \/ Signer_nativeFromCallback(s)
         \/ Signer_nativeFromInfo(s)
         \/ register_malloc(s)
         \/ register_insert(s)
         \/ free_lock(s)
         \/ free_walk(s)
         \/ free_env_lock(s)
         \/ free_env_read(s)
         \/ free_delref(s)
         \/ free_ctx(s)
         \/ free_unlink(s)
         \/ free_unlock(s)
         \/ free_native(s)
    \/ OnUnload_GetEnv
    \/ cleanup_lock
    \/ cleanup_mark
    \/ cleanup_drop
    \/ cleanup_free
    \/ cleanup_unlock
    \/ OnUnload_streamClass
    \/ OnUnload_signResultClass
    \/ OnUnload_jvm_lock
    \/ OnUnload_jvm_clear

SpecRegistry == InitRegistry /\ [][NextRegistry]_vars

\* ------------------------------------------------------------------ claims
HandleReturned(s) == sPc[s] \notin {"absent", "created", "reg_locked", "failed"}

UnloadIdle == uPc \in {"loaded", "skipped"}

\* A callback step that reads the context record: the isActive check, or
\* the host call of the body (it reads jctx->callback / jctx->streamObject).
ReadsContextBadly(t) ==
    \/ /\ th[t].frame.pc = "check"
       /\ th'[t].frame.pc # "check"
       /\ sctx[th[t].frame.obj].mem # "live"
    \/ /\ th[t].frame.pc = "body"
       /\ th'[t].frame.pc = "done"
       /\ th'[t].frame.called > 0
       /\ Deref(th[t].frame.kind, th[t].frame.obj) # "ok"

\* C1: with Signer.free as the only releaser (no unload under way), no step
\* of a signer callback reads a SignerContext that was freed or calls through
\* a host callback reference that was deleted.
C1_NoSignerUseAfterFree ==
    [][\A t \in Threads :
         (th[t].frame.kind = "sign" /\ UnloadIdle) => ~ReadsContextBadly(t)]_vars

\* C2: once Signer.free has returned for a from-callback signer, the
\* registry has no entry for it, its active flag is false, its host
\* reference has been deleted and the native signer is freed; the reference
\* is never deleted while the flag is still true, and the native signer is
\* never freed before the entry is removed and the reference deleted.
C2_FreeReleasesAll ==
    \A s \in Signers :
       /\ (HandleReturned(s) /\ sref[s] = "deleted") => ~sctx[s].isActive
       /\ nsigner[s] = "freed" => (~InRegistry(s) /\ sref[s] = "deleted")
       /\ sPc[s] = "freed" =>
            (~InRegistry(s) /\ ~sctx[s].isActive /\ sref[s] = "deleted" /\ nsigner[s] = "freed")

\* C3: a signer callback that read isActive = false is done with -1 and
\* has obtained no environment, attached no thread, allocated no array and
\* called no host method.
C3_InactiveReturnsAtOnce ==
    \A t \in Threads :
       th[t].frame.saw = "inactive" =>
          /\ th[t].frame.pc = "done"
          /\ th[t].frame.ret = -1
          /\ th[t].frame.env = "none"
          /\ ~th[t].frame.attachedNow
          /\ ~th[t].frame.alloc
          /\ th[t].frame.called = 0

C3_Witness ==
    \E t \in Threads :
       /\ th[t].frame.kind = "sign"
       /\ th[t].frame.saw = "inactive"
       /\ th[t].frame.pc = "done"
       /\ sctx[th[t].frame.obj].mem = "live"
       /\ ~sctx[th[t].frame.obj].isActive

\* C4: no callback thread uses its copy of the runtime handle (GetEnv,
\* AttachCurrentThread) once unload has cleared g_jvm.
C4_NoUseAfterClear ==
    [][\A t \in Threads :
         (th[t].frame.pc = "env_get" /\ th'[t].frame.pc # "env_get") => g_jvm]_vars

\* C5: a callback of any of the five kinds whose get_jni_env returned NULL
\* is done with -1, has called no host method, allocated no array and has
\* not set the thread-attached marker.
C5_NoEnvReturnsFailure ==
    \A t \in Threads :
       th[t].frame.env = "fail" =>
          /\ th[t].frame.kind \in StreamKinds \cup {"sign"}
          /\ th[t].frame.pc = "done"
          /\ th[t].frame.ret = -1
          /\ th[t].frame.called = 0
          /\ ~th[t].frame.alloc
          /\ ~th[t].frame.markedNow

C5_Witness ==
    \E t \in Threads :
       /\ th[t].frame.kind = "write"
       /\ th[t].frame.env = "fail"
       /\ th[t].frame.pc = "done"
       /\ g_jvm
       /\ ~th[t].attached

UnloadReturned == uPc \in {"skipped", "unloaded"}

ClassesReleased == g_streamClass # "held" /\ g_signResultClass # "held"

Drained(s) ==
    /\ ~sctx[s].isActive
    /\ sref[s] = "deleted"
    /\ sctx[s].mem = "freed"
    /\ snode[s] = "freed"

C6_Inv ==
    /\ uPc \in {"drain", "drop", "free"} =>
         /\ g_signerContextsMutex = <<"unload", 0>>
         /\ \A i \in 1..Len(g_signerContexts) : i < uCur => Drained(g_signerContexts[i])
    /\ uPc \in {"drop", "free"} => ~sctx[g_signerContexts[uCur]].isActive
    /\ uPc = "drop" => sref[g_signerContexts[uCur]] = "held"
    /\ (g_streamClass = "released" \/ g_signResultClass = "released") =>
         uPc \in {"cls_result", "jvm_lock", "jvm_clear", "unloaded"}
    /\ ~g_jvm => (uPc = "unloaded" /\ ClassesReleased)

C6_Step ==
    (uPc = "drain" /\ uPc' = "cls_stream") =>
       /\ \A i \in 1..Len(g_signerContexts) : Drained(g_signerContexts[i])
       /\ g_signerContexts' = <<>>
       /\ g_jvm' /\ g_streamClass' # "released" /\ g_signResultClass' # "released"

C7_UnloadLeavesNothing ==
    [][(uPc # "unloaded" /\ uPc' = "unloaded") =>
         /\ ClassesReleased
         /\ \A s \in Signers :
              HandleReturned(s) =>
                 (sref[s] # "held" /\ (nsigner[s] = "live" => sctx[s].mem # "freed"))
         /\ \A x \in Streams :
              stref[x] # "held" /\ (nstream[x] = "live" => stctx[x] # "freed")]_vars

\* C8: a release deletes the global reference, then frees the native
\* stream, each once: the native stream is never freed with the reference
\* still held, and a finished release did exactly these two things in order.
C8_ReleaseOrder ==
    \A x \in Streams :
       /\ nstream[x] = "freed" => stref[x] = "deleted"
       /\ stLog[x] \in {<<>>, <<"delref">>, <<"delref", "native">>}
       /\ stPc[x] = "released" => stLog[x] = <<"delref", "native">>

C8_Witness ==
    \E x \in Streams :
       stPc[x] = "released" /\ stref[x] = "deleted" /\ nstream[x] = "freed"

\* C9: the context holds its global reference exactly while the handle is
\* live and not being released, and no stream callback reads a freed
\* context or calls through a deleted reference.
C9_NoStreamUseAfterRelease ==
    /\ [](\A x \in Streams : stref[x] = "held" <=> stPc[x] = "live")
    /\ [][\A t \in Threads :
            th[t].frame.kind \in StreamKinds => ~ReadsContextBadly(t)]_vars

\* C10: a thread that was attached when its first callback arrived never
\* gets the marker and is never detached by the bridge; the marker is set
\* only by a get_jni_env call that attached the thread, and only threads
\* with the marker are detached by the destructor.
C10_HostThreadNeverDetached ==
    \A t \in Threads :
       /\ th[t].hostOwned => (~th[t].marker /\ th[t].detachedByBridge = 0)
       /\ th[t].frame.markedNow => th[t].frame.attachedNow
       /\ th[t].marker => th[t].attaches > 0
       /\ th[t].detachedByBridge > 0 => th[t].marker

C10_Witness ==
    \E t \in Threads :
       /\ th[t].hostOwned
       /\ th[t].frame.pc = "done"
       /\ th[t].frame.env = "ok"
       /\ th[t].frame.called > 0
       /\ ~th[t].marker

\* C11: a thread that the bridge attached (AttachCurrentThread succeeded in
\* get_jni_env) is no longer attached to the runtime once it has exited,
\* whether it exits before, during or after JNI_OnUnload.
C11_AttachedThreadsDetached ==
    \A t \in Threads :
       (th[t].exited /\ th[t].attaches > 0) => ~th[t].attached

\* C12: a stream create returns a handle only with all four cached method
\* IDs present; with any of them missing it returns 0 with an exception
\* raised, creates no native stream and leaves neither a live StreamContext
\* nor a held global reference.
C12_CreateNeedsAllMethods ==
    call.fn = "createStream" =>
       /\ call.out.handle => g_streamMethods = AllMethods
       /\ g_streamMethods # AllMethods =>
            /\ ~call.out.handle
            /\ call.out.raised # "none"
            /\ call.out.native = "none"
            /\ call.out.mem # "live"
            /\ call.out.ref # "held"

C12_Witness ==
    /\ call.fn = "createStream"
    /\ call.in = "ok"
    /\ g_streamMethods = AllMethods \ {"seek"}
    /\ call.out.raised = "IllegalStateException"
    /\ ~call.out.handle

\* How many nodes of the list belong to signer s.
EntriesOf(s) == Cardinality({i \in 1..Len(g_signerContexts) : g_signerContexts[i] = s})

FreeInProgress(s) ==
    sPc[s] \in {"f_walk", "f_env_lock", "f_env_read", "f_delref", "f_freectx", "f_unlink"}

\* C13: with creates and frees only (no unload drain), every callback signer whose
\* non-zero handle was returned and that has not been freed has exactly one
\* registry entry, and the registry holds entries of such signers only.
C13_RegistryMatchesSigners ==
    uPc \in {"loaded", "skipped"} =>
       \A s \in DOMAIN sPc :
          /\ EntriesOf(s) <= 1
          /\ (sPc[s] = "live" /\ sctx[s].mem # "none") => EntriesOf(s) = 1
          /\ EntriesOf(s) = 1 => (sPc[s] = "live" \/ FreeInProgress(s))

InRegistryCode(s) == sPc[s] = "reg_locked" \/ FreeInProgress(s) \/ sPc[s] = "f_unlock"

DrainInProgress == uPc \in {"drain", "drop", "free"}

InsideRegistry ==
    Cardinality({s \in DOMAIN sPc : InRegistryCode(s)}) + (IF DrainInProgress THEN 1 ELSE 0)

C14_Inv ==
    /\ InsideRegistry <= 1
    /\ \A s \in DOMAIN sPc :
          /\ sPc[s] = "reg_locked" => g_signerContextsMutex = <<"create", s>>
          /\ (FreeInProgress(s) \/ sPc[s] = "f_unlock") => g_signerContextsMutex = <<"free", s>>
          /\ EntriesOf(s) <= 1
    /\ DrainInProgress => g_signerContextsMutex = <<"unload", 0>>

C14_Step ==
    /\ \A s \in DOMAIN sPc :
          \* the insert puts the node at the head of the list it found
          /\ (sPc[s] = "reg_locked" /\ sPc'[s] = "live") =>
                g_signerContexts' = <<s>> \o g_signerContexts
          \* the remove unlinks and frees a node that is linked and live
          /\ (sPc[s] = "f_unlink" /\ sPc'[s] = "f_unlock") =>
                /\ EntriesOf(s) = 1 /\ snode[s] = "live"
                /\ g_signerContexts' = RemoveNode(g_signerContexts, s)
          /\ (sPc[s] = "f_freectx" /\ sPc'[s] = "f_unlink") => sctx[s].mem = "live"
    \* the drain frees live nodes and live contexts
    /\ (uPc = "free" /\ uPc' = "drain") =>
          /\ snode[g_signerContexts[uCur]] = "live"
          /\ sctx[g_signerContexts[uCur]].mem = "live"
    \* the list changes by one insert, one remove or the end of the drain
    /\ g_signerContexts' # g_signerContexts =>
          \/ \E s \in DOMAIN sPc : sPc[s] = "reg_locked" /\ sPc'[s] = "live"
          \/ \E s \in DOMAIN sPc : sPc[s] = "f_unlink" /\ sPc'[s] = "f_unlock"
          \/ uPc = "drain" /\ uPc' = "cls_stream" /\ g_signerContexts' = <<>>

\* C14: insert, remove and drain exclude one another: at most one thread is
\* between lock and unlock of g_signerContextsMutex and it owns the mutex;
\* an insert links its node at the head of the list as it stands, a remove
\* and the drain free only nodes and contexts that are live (none twice),
\* and the list changes only by these three.
C14_RegistryExclusion == []C14_Inv /\ [][C14_Step]_vars

C14_Witness ==
    /\ uPc = "u_lock"
    /\ \E s1, s2 \in DOMAIN sPc :
          /\ s1 # s2
          /\ sPc[s1] = "f_unlink"
          /\ sPc[s2] = "created"
          /\ g_signerContextsMutex = <<"free", s1>>

CallbackKinds == StreamKinds \cup {"sign"}

\* C15: when the host method called by one of the five callbacks throws,
\* the callback returns -1 and the exception is still pending on return.
C15_HostFailureStaysPending ==
    (call.fn \in CallbackKinds /\ call.out.called = 1 /\ call.in.throws) =>
       (call.out.ret = -1 /\ call.out.pending)

\* C16: the read callback, with requested length L and host result n:
\* for 0 <= n <= L it copies n bytes and returns n; for n < 0 or n > L it
\* copies nothing and returns -1.
C16_ReadCount ==
    (call.fn = "read" /\ call.out.called = 1 /\ ~call.in.throws) =>
       IF call.in.n >= 0 /\ AtMost(call.in.n, call.in.len)
       THEN call.out.copied = call.in.n /\ call.out.ret = call.in.n
       ELSE call.out.copied = 0 /\ call.out.ret = -1

\* C17: in the read, write and sign callbacks a length above 2^31 - 1 gives
\* a raised exception and -1 with no array allocated and no host method
\* called; a length in 0 .. 2^31 - 1 goes on to the allocation of the array.
C17_LengthCheck ==
    call.fn \in {"read", "write", "sign"} =>
       /\ call.in.len.hi > 0 =>
            /\ call.out.ret = -1
            /\ call.out.pending
            /\ ~call.out.alloc
            /\ call.out.called = 0
       /\ (call.in.len.hi = 0 /\ call.in.len.lo >= 0 /\ call.in.len.lo <= INT32_MAX) =>
            (call.in.allocOk => call.out.alloc)

C17_Witness ==
    /\ call.fn = "sign"
    /\ call.in.len = Length(1, 0)
    /\ call.in.allocOk
    /\ call.out.ret = -1
    /\ call.out.pending
    /\ call.out.called = 0

\* C18: the sign callback with output capacity C, once the host sign
\* method was called: -1 and nothing written when the method throws, returns
\* null (n < 0 here) or returns more than C bytes; else the signature's n
\* bytes are written and n is returned, 0 <= n <= C.
C18_SignResult ==
    (call.fn = "sign" /\ call.out.called = 1) =>
       IF call.in.throws \/ call.in.n < 0 \/ call.in.n > call.in.cap
       THEN call.out.ret = -1 /\ call.out.copied = 0
       ELSE /\ call.out.ret = call.in.n
            /\ call.out.copied = call.in.n
            /\ call.in.n >= 0
            /\ call.in.n <= call.in.cap

C18_Witness ==
    /\ call.fn = "sign"
    /\ call.out.called = 1
    /\ ~call.in.throws
    /\ call.in.n = 3
    /\ call.in.cap = 2
    /\ call.out.ret = -1
    /\ call.out.copied = 0

SevenAlgorithms == {"es256", "es384", "es512", "ps256", "ps384", "ps512", "ed25519"}

NothingCreated ==
    /\ ~call.out.handle
    /\ call.out.mem = "none"
    /\ call.out.ref = "none"
    /\ call.out.native = "none"
    /\ ~call.registerCalled

UnknownAlgorithmRaised ==
    call.raised = [class |-> "IllegalArgumentException", msg |-> "Unknown signing algorithm"]

\* C19 (as claimed): every from-callback create whose algorithm string is
\* not one of the seven raises "Unknown signing algorithm", returns 0 and
\* has created nothing.
C19_UnknownAlgorithmAlways ==
    (call.fn = "fromCallback" /\ "algorithm" \notin call.in.nulls
        /\ call.in.conv = "ok" /\ call.in.alg \notin SevenAlgorithms) =>
       (UnknownAlgorithmRaised /\ NothingCreated)

\* C19 (amended): a from-callback create with algorithm, certificate chain
\* and callback all non-null, whose algorithm string was converted and is
\* not exactly one of the seven, raises IllegalArgumentException "Unknown
\* signing algorithm", returns 0 and has created no context, no global
\* reference, no native signer and no registry entry; and the exception is
\* raised for no string that is one of the seven.
C19_UnknownAlgorithmRejected ==
    call.fn = "fromCallback" =>
       /\ (call.in.nulls = {} /\ call.in.conv # "algorithm"
             /\ call.in.alg \notin SevenAlgorithms) =>
            (UnknownAlgorithmRaised /\ NothingCreated)
       /\ UnknownAlgorithmRaised => call.in.alg \notin SevenAlgorithms

C19_Witness ==
    /\ call.fn = "fromCallback"
    /\ call.in.nulls = {}
    /\ call.in.conv = "ok"
    /\ call.in.alg = "ES256"
    /\ call.in.o = "ok"
    /\ UnknownAlgorithmRaised
    /\ ~call.out.handle

SignHostOk ==
    /\ (g_signResultClass = "held" \/ call.in.findClassOk)
    /\ call.in.constructorOk
    /\ call.in.allocOk
    /\ call.in.newObjectOk

\* C20: Builder.sign, once c2pa_builder_sign returned (size, bytes):
\* size < 0 raises and returns none; size > 0 with bytes gives (with the
\* host allocations succeeding) SignResult(size, array) where the array is
\* fresh and holds the size bytes, and the native buffer is freed; size = 0
\* gives SignResult(0, null).
C20_SignMapping ==
    (call.fn = "builderSign" /\ call.out.nativeCalled) =>
       /\ IsNegative(call.in.size) =>
            (call.out.ret = "none" /\ call.out.raised # "none")
       /\ (SignHostOk /\ IsPositive(call.in.size) /\ call.in.bytes) =>
            /\ call.out.ret = "SignResult"
            /\ call.out.size = call.in.size
            /\ call.in.size = Length(0, call.out.arrayLen)
            /\ call.out.freed
       /\ (SignHostOk /\ call.in.size = Length(0, 0)) =>
            /\ call.out.ret = "SignResult"
            /\ call.out.size = Length(0, 0)
            /\ call.out.arrayLen = -1

\* C21: a native heap string or buffer handed to the bridge is freed
\* exactly once by the operation that received it: the last-error string of
\* throw_c2pa_exception (also when it is empty), the manifest bytes of
\* Builder.sign (also when the host-side copy fails).
C21_NativeBuffersFreedOnce ==
    /\ call.fn = "nativeFailure" =>
          call.out.frees = (IF call.in.error.null THEN 0 ELSE 1)
    /\ (call.fn = "builderSign" /\ call.out.nativeCalled) =>
          (call.out.freed <=> call.in.bytes)

\* C25: throw_c2pa_exception raises one RuntimeException per call, with the
\* last-error string as its message when that string is non-empty and with
\* the default message when it is NULL or empty.
C25_RaiseNativeFailure ==
    call.fn = "nativeFailure" =>
       /\ call.out.raises = 1
       /\ (~call.in.error.null /\ call.in.error.chars # <<>>) =>
             call.out.msg = call.in.error.chars
       /\ (call.in.error.null \/ call.in.error.chars = <<>>) =>
             call.out.msg = call.in.defaultMessage

C25_Witness ==
    /\ call.fn = "nativeFailure"
    /\ call.in.error = CString(FALSE, <<>>)
    /\ call.out.msg = call.in.defaultMessage
    /\ call.out.msg # <<>>
    /\ call.out.raises = 1

StringCalls == {"signFile", "fromCallbackStrings", "ed25519Sign"}

C23_ZeroHandleRejected ==
    (call.fn = "gateway" /\ call.in.zero # {}) =>
       (call.out.raised = "domain" /\ ~call.out.nativeCalled)

\* C24: an operation that yields a handle or bytes and whose native
\* function returned NULL or a negative size returns with a failure raised.
C24_NativeNullRaises ==
    (call.fn = "gateway" /\ GatewayOps[call.op].yields
        /\ call.out.nativeCalled /\ call.in.nativeNull) =>
       call.out.raised # "none"

\* C27: Reader.resourceToStream with valid arguments returns the 64-bit
\* result of the native function unchanged, negative or not, and raises
\* nothing.
C27_ResultPassedThrough ==
    (call.fn = "resourceToStream" /\ call.out.nativeCalled) =>
       (call.out.ret = call.in.result /\ call.out.raised = "none")

\* C26: releasing the zero handle (stream release, reader free, builder
\* free, signer free) calls nothing and raises nothing, and doing it twice
\* does the same as doing it once.
C26_ZeroReleaseNoOp ==
    (call.fn = "release" /\ call.ptr = 0) =>
       (call.steps = <<>> /\ call.raised = "none"
          /\ ReleaseTimes(call.kind, 0, 2) = ReleaseTimes(call.kind, 0, 1))

C26_Witness ==
    call.fn = "release" /\ call.ptr = 0 /\ call.times = 2 /\ call.kind = "Signer_free"

\* A step of the host thread working on signer s / on stream x.
SignerStep(s) == sPc'[s] # sPc[s]

StreamStep(x) == stPc'[x] # stPc[x]

EntriesBut(list, s) == SelectSeq(list, LAMBDA n : n # s)

OtherSignersUnchanged(s) ==
    /\ \A t \in DOMAIN sPc \ {s} :
          /\ sctx'[t] = sctx[t] /\ sref'[t] = sref[t] /\ snode'[t] = snode[t]
          /\ nsigner'[t] = nsigner[t] /\ sPc'[t] = sPc[t]
    /\ EntriesBut(g_signerContexts', s) = EntriesBut(g_signerContexts, s)

C28_Step ==
    /\ \A s \in DOMAIN sPc :
          SignerStep(s) =>
             /\ OtherSignersUnchanged(s)
             /\ UNCHANGED streamVars
             \* a signer that has no context (from-info, or a failed create)
             \* never changes the registry
             /\ sctx'[s].mem = "none" => g_signerContexts' = g_signerContexts
    /\ \A x \in DOMAIN stPc :
          StreamStep(x) =>
             /\ UNCHANGED <<g_signerContexts, sctx, sref, snode, nsigner, sPc>>
             /\ \A y \in DOMAIN stPc \ {x} :
                   stctx'[y] = stctx[y] /\ stref'[y] = stref[y] /\ nstream'[y] = nstream[y]

\* C28: a step of a create or a free on one signer, failing or not, changes
\* no other signer's context, reference, node, native signer or registry
\* entries and no stream; Signer free removes the entries of its own signer
\* only, and none for a from-info signer; a stream create, failing or not,
\* changes no signer and no other stream.
C28_FrameEffect == [][C28_Step]_vars

C28_Witness ==
    \E s1, s2 \in DOMAIN sPc :
       /\ s1 # s2
       /\ sPc[s1] = "freed" /\ sctx[s1].mem = "none"
       /\ sPc[s2] = "live" /\ g_signerContexts = <<s2>>
       /\ \E x \in DOMAIN stPc : stPc[x] = "failed"

\* C29: the cached class references and method IDs change only at load;
\* unload clears all of them, so that a stream create after unload is
\* refused.
C29_Step ==
    \* nothing but unload touches the cached bindings
    /\ (uPc' = uPc) => UNCHANGED <<g_streamClass, g_signResultClass, g_streamMethods>>
    \* a stream create after unload is refused
    /\ \A x \in DOMAIN stPc :
          (uPc = "unloaded" /\ stPc[x] = "absent" /\ stPc'[x] # "absent")
             => stPc'[x] = "failed"

C29_Inv ==
    uPc = "unloaded" =>
       (g_streamMethods = {} /\ g_streamClass # "held" /\ g_signResultClass # "held")

C29_BindingsClearedByUnload == []C29_Inv /\ [][C29_Step]_vars

C30_Inv ==
    \A t \in Threads :
       /\ th[t].attaches <= 1
       /\ th[t].detachedByBridge <= th[t].attaches
       /\ th[t].attaches = 1 => (th[t].marker /\ ~th[t].hostOwned)
       /\ th[t].frame.attachedNow =>
             (th[t].marker /\ th[t].frame.env = "ok" /\ th[t].frame.pc \in {"body", "done"})

C30_Step ==
    \A t \in Threads :
       \* an attach happens in get_jni_env of an unattached thread, sets the
       \* marker and lets the callback go on
       /\ th'[t].attaches # th[t].attaches =>
             /\ th[t].frame.pc = "env_get" /\ ~th[t].attached
             /\ th'[t].attaches = th[t].attaches + 1
             /\ th'[t].attached /\ th'[t].marker
             /\ th'[t].frame.pc = "body" /\ th'[t].frame.env = "ok"
       \* a thread that is attached does not attach again
       /\ (th[t].frame.pc = "env_get" /\ th[t].attached) =>
             th'[t].attaches = th[t].attaches
       \* a detach by the bridge happens at thread exit only
       /\ th'[t].detachedByBridge # th[t].detachedByBridge =>
             (th[t].frame.pc = "x_detach" /\ th'[t].exited /\ ~th'[t].attached)

\* C30: a callback on a native thread that is not attached attaches it,
\* sets the thread-attached marker and goes on; later callbacks on that
\* thread do not attach again; every foreign thread is attached at most
\* once and detached by the bridge at most once.
C30_AttachOnce == []C30_Inv /\ [][C30_Step]_vars

C30_Witness ==
    \E t \in Threads :
       /\ th[t].attaches = 1 /\ ~th[t].hostOwned
       /\ th[t].frame.pc = "body" /\ th[t].frame.env = "ok"
       /\ ~th[t].frame.attachedNow

\* The drain is past the node of signer s: it frees that signer's context.
DrainFrees(s) ==
    uPc = "free" /\ uPc' = "drain" /\ g_signerContexts[uCur] = s

DrainDeletes(s) ==
    uPc = "drop" /\ uPc' = "free" /\ g_signerContexts[uCur] = s

C31_Step ==
    \A s \in DOMAIN sPc :
       \* free(ctx), by Signer free or by the drain, is of a live record
       /\ ((sPc[s] = "f_freectx" /\ sPc'[s] = "f_unlink") \/ DrainFrees(s)) =>
             (sctx[s].mem = "live" /\ sctx'[s].mem = "freed")
       \* DeleteGlobalRef, by Signer free or by the drain, is of a held reference
       /\ ((sPc[s] = "f_delref" /\ sPc'[s] = "f_freectx") \/ DrainDeletes(s)) =>
             (sref[s] = "held" /\ sctx[s].mem = "live")
       \* a freed record and a deleted reference stay so
       /\ sctx[s].mem = "freed" => sctx'[s].mem = "freed"
       /\ sref[s] = "deleted" => sref'[s] = "deleted"

\* C31: whatever the interleaving of signer from-callback create, Signer
\* free and unload (Signer free after the drain included), every free of a
\* SignerContext record is of a live record and every DeleteGlobalRef of a
\* callback reference is of a held reference: none is freed or deleted twice.
C31_ContextFreedOnce == [][C31_Step]_vars

\* Signer free walks the registry for a signer whose context the unload
\* drain has already freed.
C31_Witness ==
    \E s \in DOMAIN sPc :
       /\ sPc[s] = "f_walk"
       /\ sctx[s].mem = "freed" /\ sref[s] = "deleted"
       /\ uPc = "unloaded"

\* The step with which the holder of g_jvm_mutex goes on: the read of g_jvm
\* and the unlock.
JvmHolderStep ==
    \/ \E s \in DOMAIN sPc : g_jvm_mutex = <<"free", s>> /\ free_env_read(s)
    \/ g_jvm_mutex = <<"unload", 0>> /\ OnUnload_jvm_clear
    \/ \E t \in Threads : g_jvm_mutex = <<"thread", t>> /\ (cb_env_read(t) \/ exit_read(t))

\* The step with which the holder of g_signerContextsMutex goes on.
RegistryHolderStep ==
    \/ \E s \in DOMAIN sPc :
          \/ g_signerContextsMutex = <<"create", s>> /\ register_insert(s)
          \/ g_signerContextsMutex = <<"free", s>>
               /\ (free_walk(s) \/ free_env_lock(s) \/ free_env_read(s) \/ free_delref(s)
                     \/ free_ctx(s) \/ free_unlink(s) \/ free_unlock(s))
    \/ g_signerContextsMutex = <<"unload", 0>>
         /\ (cleanup_mark \/ cleanup_drop \/ cleanup_free \/ cleanup_unlock)

C32_Inv ==
    \* g_jvm_mutex is held for the read of g_jvm only; a holder that also
    \* holds the registry mutex is a Signer free, which took the registry
    \* mutex first
    /\ \A s \in DOMAIN sPc :
          g_jvm_mutex = <<"free", s>> =>
             (sPc[s] = "f_env_read" /\ g_signerContextsMutex = <<"free", s>>)
    /\ g_jvm_mutex = <<"unload", 0>> =>
          (uPc = "jvm_clear" /\ g_signerContextsMutex # <<"unload", 0>>)
    /\ \A t \in Threads :
          /\ g_jvm_mutex = <<"thread", t>> => Frame(t).pc \in {"env_read", "x_read"}
          \* no callback holds a mutex while the host method runs
          /\ Frame(t).pc \in {"env_get", "body", "done"} =>
                (g_jvm_mutex # <<"thread", t>> /\ g_signerContextsMutex # <<"thread", t>>)
    \* no wait-for cycle: the holder of g_jvm_mutex can always go on, and the
    \* holder of the registry mutex can go on or waits for g_jvm_mutex only
    /\ g_jvm_mutex # NoOwner => ENABLED JvmHolderStep
    /\ g_signerContextsMutex # NoOwner =>
          \/ ENABLED RegistryHolderStep
          \/ /\ \E s \in DOMAIN sPc :
                   g_signerContextsMutex = <<"free", s>> /\ sPc[s] = "f_env_lock"
             /\ g_jvm_mutex # NoOwner

C32_Step ==
    \* whoever takes the registry mutex does not hold g_jvm_mutex
    (g_signerContextsMutex' # g_signerContextsMutex /\ g_signerContextsMutex' # NoOwner) =>
       (g_signerContextsMutex = NoOwner /\ g_jvm_mutex # g_signerContextsMutex')

\* C32: the registry mutex is taken first and g_jvm_mutex inside it, never
\* the other way round; no callback holds either mutex while the host method
\* runs; and the holder of a mutex can always go on or waits only for
\* g_jvm_mutex, whose holder can always go on: no deadlock on the two locks.
C32_LockOrder == []C32_Inv /\ [][C32_Step]_vars

C32_Witness ==
    \E s \in DOMAIN sPc, t \in Threads :
       /\ g_signerContextsMutex = <<"free", s>> /\ g_jvm_mutex = <<"free", s>>
       /\ Frame(t).pc = "env_lock"
       /\ uPc = "u_lock"

\* C33: a stream create or a signer from-callback create that failed
\* (allocation, global reference, sign method, stream bindings, native
\* constructor) returned 0 and left no live context record, no held global
\* reference, no native object and, for a signer, no registry node or entry.
C33_FailedCreateLeavesNothing ==
    /\ \A s \in DOMAIN sPc :
          sPc[s] = "failed" =>
             /\ sctx[s].mem \in {"none", "freed"}
             /\ sref[s] \in {"none", "deleted"}
             /\ sref[s] = "deleted" => sctx[s].mem = "freed"
             /\ nsigner[s] = "none"
             /\ snode[s] = "none"
             /\ EntriesOf(s) = 0
    /\ \A x \in DOMAIN stPc :
          stPc[x] = "failed" =>
             /\ stctx[x] \in {"none", "freed"}
             /\ stref[x] \in {"none", "deleted"}
             /\ stref[x] = "deleted" => stctx[x] = "freed"
             /\ nstream[x] = "none"

C33_Witness ==
    /\ \E s \in DOMAIN sPc :
          sPc[s] = "failed" /\ sctx[s].mem = "freed" /\ sref[s] = "deleted"
    /\ \E x \in DOMAIN stPc :
          stPc[x] = "failed" /\ stctx[x] = "freed" /\ stref[x] = "deleted"
          /\ g_streamMethods # AllMethods

====
